---- MODULE Spec2Model ----
(***************************************************************************)
(* Model of skills/kernel-memory-diagnosis/pool_tag_tracker.py: the pool   *)
(* tag decoder get_pool_tags() and the sampling loop / leak reporter       *)
(* main().                                                                 *)
(*                                                                         *)
(* Conventions                                                             *)
(*  - a bytes object is a sequence of integers 0..255; Python offset o is  *)
(*    TLA+ index o+1;                                                      *)
(*  - a str tag is the sequence of its 4 character codes; Python compares  *)
(*    str by code point, i.e. lexicographically on these sequences;        *)
(*  - a dict is the sequence of its items in insertion order (Python dicts *)
(*    iterate in insertion order; assigning to an existing key keeps the   *)
(*    key's position);                                                     *)
(*  - Python ints are unbounded; the inputs are chosen so that every       *)
(*    intermediate value fits TLC's 32-bit integers;                       *)
(*  - a Python float is modelled by the exact rational <<num, den>> (in    *)
(*    lowest terms, den > 0) of the real-number result; IEEE rounding is   *)
(*    not modelled.                                                        *)
(***************************************************************************)
EXTENDS Integers, Sequences, FiniteSets

VARIABLES
    pc,        \* position of main(): "init", "loop" (at the loop header),
               \* "slept" (time.sleep has returned), "done", "raised"; of a
               \* single get_pool_tags() call: "call", "returned", "raised"; of
               \* a single comparison: "pair", "compared", "done"
    err,       \* name of the uncaught exception when pc = "raised", else "none"
    interval,  \* main: interval (argv[1])
    samples,   \* main: samples (argv[2])
    status,    \* get_pool_tags: status of the last NtQuerySystemInformation call
    data,      \* get_pool_tags: buf.raw[:ret_len.value] of the last call
    tags,      \* get_pool_tags: the dict returned by the last call
    baseline,  \* main: baseline
    i,         \* main: loop variable i (0 before the first iteration)
    current,   \* main: current
    growers,   \* main: growers of the last iteration, after the sort
    shown,     \* main: the rows printed for the last iteration, growers[:15]
    history,   \* main: history
    final,     \* main: final
    suspects,  \* main: suspects, after the sort
    summary,   \* main: the rows printed by the final table, with est_day
    calls,     \* number of get_pool_tags() calls made so far
    sleeps     \* number of time.sleep() calls made so far

vars == <<pc, err, interval, samples, status, data, tags, baseline, i, current,
          growers, shown, history, final, suspects, summary, calls, sleeps>>

----------------------------------------------------------------------------
(* Bounds of the model *)

\* largest number of records in a generated buffer or snapshot
MaxRecs == 3
\* largest sample count given on the command line
MaxSamples == 2
\* number of records of the one large buffer, more than the rows of a table
ManyRecs == 16

----------------------------------------------------------------------------
(* Program constants *)

\* line 38: min_delta_kb = 100
min_delta_kb == 100
\* line 22 / line 32: size of the header skipped, size of one record
HeaderSize == 8
RecordSize == 40
\* line 71: growers[:15]
TopRows == 15

Min(a, b) == IF a <= b THEN a ELSE b

----------------------------------------------------------------------------
(* struct.unpack_from and the tag rendering *)

\* little-endian unsigned integer of n bytes at Python offset off
RECURSIVE unpack_le(_, _, _)
unpack_le(d, off, n) ==
    IF n = 0 THEN 0 ELSE d[off + 1] + 256 * unpack_le(d, off + 1, n - 1)

\* struct.unpack_from('<I', data, off)[0]
unpack_I(d, off) == unpack_le(d, off, 4)

\* struct.unpack_from('<Q', data, off)[0]
unpack_Q(d, off) == unpack_le(d, off, 8)

\* struct.unpack_from raises struct.error when the buffer is too short
unpack_raises(d, off, n) == off + n > Len(d)

\* line 26: chr(b) if 32 <= b < 127 else '.'
tag_char_upto_127(b) == IF 32 <= b /\ b <= 127 THEN b ELSE 46
tag_char(b) == IF 32 <= b /\ b < 127 THEN b ELSE 46

\* line 26: ''.join(... for b in data[offset:offset+4])
tag_of(d, offset) == [j \in 1..4 |-> tag_char(d[offset + j])]

----------------------------------------------------------------------------
(* dict operations on insertion-ordered item sequences *)

Keys(m) == {m[j].tag : j \in 1..Len(m)}

\* m[key] for a key that is present
Lookup(m, key) == m[CHOOSE j \in 1..Len(m) : m[j].tag = key]

\* dict.get(key, default)
dict_get(m, key, default) == IF key \in Keys(m) THEN Lookup(m, key) ELSE default

\* m[item.tag] = item
dict_set_keep_first(m, item) ==
    IF item.tag \in Keys(m) THEN m ELSE Append(m, item)
dict_set(m, item) ==
    IF item.tag \in Keys(m)
    THEN [j \in 1..Len(m) |-> IF m[j].tag = item.tag THEN item ELSE m[j]]
    ELSE Append(m, item)

----------------------------------------------------------------------------
(* get_pool_tags, lines 10-33 *)

\* lines 26-31: the dict item built from the record at offset
read_record(d, offset) ==
    [tag      |-> tag_of(d, offset),
     paged    |-> unpack_Q(d, offset + 16),
     nonpaged |-> unpack_Q(d, offset + 32),
     p_out    |-> unpack_I(d, offset + 4) - unpack_I(d, offset + 8),
     np_out   |-> unpack_I(d, offset + 24) - unpack_I(d, offset + 28)]

\* line 24: if offset + 40 > len(data): break
truncated_off_by_one(d, offset) == offset + RecordSize >= Len(d)
truncated(d, offset) == offset + RecordSize > Len(d)

\* lines 23-32: the loop, with `left` iterations of range(count) still to run
RECURSIVE decode_loop(_, _, _, _)
decode_loop(d, left, offset, acc) ==
    IF left <= 0 \/ truncated(d, offset) THEN acc
    ELSE decode_loop(d, left - 1, offset + RecordSize,
                     dict_set(acc, read_record(d, offset)))

\* lines 15-33: the outcome of one call, given what the OS call produced
get_pool_tags_unchecked(st, d) ==
    IF unpack_raises(d, 0, 4) THEN [raised |-> TRUE, tags |-> <<>>]
    ELSE [raised |-> FALSE,
          tags   |-> decode_loop(d, unpack_I(d, 0), HeaderSize, <<>>)]
get_pool_tags(st, d) ==
    IF st # 0 THEN [raised |-> FALSE, tags |-> <<>>]
    ELSE IF unpack_raises(d, 0, 4) THEN [raised |-> TRUE, tags |-> <<>>]
    ELSE [raised |-> FALSE,
          tags   |-> decode_loop(d, unpack_I(d, 0), HeaderSize, <<>>)]

----------------------------------------------------------------------------
(* Floats as exact rationals <<num, den>>, den > 0, lowest terms *)

Abs(x) == IF x < 0 THEN -x ELSE x

RECURSIVE GCD(_, _)
GCD(a, b) == IF b = 0 THEN a ELSE GCD(b, a % b)

Norm(n, d) ==
    LET g == GCD(Abs(n), Abs(d))
        s == IF d < 0 THEN -1 ELSE 1
    IN  <<s * (n \div g), s * (d \div g)>>

Rat(n) == <<n, 1>>

\* x / y for y # 0 (cross-reduced first, to keep the products small)
RDiv(x, y) ==
    LET g1 == GCD(Abs(x[1]), Abs(y[1]))
        g2 == GCD(y[2], x[2])
    IN  Norm((x[1] \div g1) * (y[2] \div g2), (x[2] \div g2) * (y[1] \div g1))

\* x * y
RMul(x, y) ==
    LET g1 == GCD(Abs(x[1]), y[2])
        g2 == GCD(Abs(y[1]), x[2])
    IN  Norm((x[1] \div g1) * (y[1] \div g2), (x[2] \div g2) * (y[2] \div g1))

----------------------------------------------------------------------------
(* list.sort(key=..., reverse=True): stable, descending by component k *)

\* x goes after every element whose key is >= its own (equal keys keep
\* their original order, also under reverse=True)
insert_desc_unstable(sorted, x, k) ==
    LET n == Cardinality({j \in 1..Len(sorted) : sorted[j][k] > x[k]})
    IN  SubSeq(sorted, 1, n) \o <<x>> \o SubSeq(sorted, n + 1, Len(sorted))
insert_desc(sorted, x, k) ==
    LET n == Cardinality({j \in 1..Len(sorted) : sorted[j][k] >= x[k]})
    IN  SubSeq(sorted, 1, n) \o <<x>> \o SubSeq(sorted, n + 1, Len(sorted))

RECURSIVE sort_from(_, _, _, _)
sort_from(s, j, acc, k) ==
    IF j > Len(s) THEN acc
    ELSE sort_from(s, j + 1, insert_desc(acc, s[j], k), k)

sort_desc(s, k) == sort_from(s, 1, <<>>, k)

----------------------------------------------------------------------------
(* main, lines 54-63: the per-interval comparison with the baseline *)

\* line 56: the default of baseline.get
zero_record == [paged |-> 0, nonpaged |-> 0, p_out |-> 0, np_out |-> 0]

\* line 56: base = baseline.get(tag, {...})
base_ignoring_baseline(bl, tag) == zero_record
base_defaulting_to_first(bl, tag) ==
    dict_get(bl, tag, IF bl = <<>> THEN zero_record ELSE bl[1])
base_of(bl, tag) == dict_get(bl, tag, zero_record)

\* lines 60 and 85: d_total > min_delta_kb * 1024
exceeds_or_equal(d_total) == d_total >= min_delta_kb * 1024
exceeds(d_total) == d_total > min_delta_kb * 1024

\* lines 57-61: the tuple appended for one item of current
grower_of(base, cur) ==
    <<cur.tag,
      cur.paged - base.paged,
      cur.nonpaged - base.nonpaged,
      (cur.paged - base.paged) + (cur.nonpaged - base.nonpaged),
      cur.paged + cur.nonpaged>>

\* lines 54-61: growers before the sort, in the iteration order of current
collect_growers(bl, cur) ==
    SelectSeq([j \in 1..Len(cur) |-> grower_of(base_of(bl, cur[j].tag), cur[j])],
              LAMBDA g : exceeds(g[4]))

\* line 63: growers.sort(key=lambda x: x[3], reverse=True)
sort_growers(g) == sort_desc(g, 4)

\* lines 54-63
compute_growers(bl, cur) == sort_growers(collect_growers(bl, cur))

\* line 71: growers[:15]
top_rows_tail(g) == SubSeq(g, Len(g) - Min(TopRows, Len(g)) + 1, Len(g))
top_rows(g) == SubSeq(g, 1, Min(TopRows, Len(g)))

----------------------------------------------------------------------------
(* main, lines 81-98: the final summary *)

\* line 83: the default of baseline.get
zero_record_final == [paged |-> 0, nonpaged |-> 0]

\* line 84
final_delta_paged_only(base, cur) == cur.paged - base.paged
final_delta(base, cur) ==
    (cur.paged + cur.nonpaged) - (base.paged + base.nonpaged)

\* line 86: (d_total / 1024) / (samples * interval / 60), divisor non-zero
rate_per_second(d_total, n, ival) ==
    RDiv(RDiv(Rat(d_total), Rat(1024)), Rat(n * ival))
rate_kb_per_min(d_total, n, ival) ==
    RDiv(RDiv(Rat(d_total), Rat(1024)), RDiv(Rat(n * ival), Rat(60)))

\* line 86 raises ZeroDivisionError when samples * interval / 60 is 0.0
rate_raises(n, ival) == n * ival = 0

\* the items of final that pass line 85, in the iteration order of final
final_candidates(bl, fin) ==
    SelectSeq([j \in 1..Len(fin) |->
                  [cur     |-> fin[j],
                   d_total |-> final_delta(dict_get(bl, fin[j].tag, zero_record_final),
                                           fin[j])]],
              LAMBDA c : exceeds(c.d_total))

\* lines 81-87: suspects before the sort (no candidate when the rate raises)
collect_suspects(bl, fin, n, ival) ==
    LET c == final_candidates(bl, fin)
    IN  [j \in 1..Len(c) |->
            <<c[j].cur.tag, c[j].d_total, rate_kb_per_min(c[j].d_total, n, ival),
              c[j].cur.paged + c[j].cur.nonpaged>>]

\* line 89: suspects.sort(key=lambda x: x[1], reverse=True)
sort_suspects(s) == sort_desc(s, 2)

\* line 97: est_day = rate * 60 * 24 / 1024
est_day(rate) == RDiv(RMul(RMul(rate, Rat(60)), Rat(24)), Rat(1024))

\* lines 96-98: the rows of the final table, before formatting
summary_rows(s) ==
    [j \in 1..Len(s) |-> <<s[j][1], s[j][2], s[j][3], s[j][4], est_day(s[j][3])>>]

----------------------------------------------------------------------------
(* The environment: what NtQuerySystemInformation(22, ...) leaves behind,  *)
(* line 15.  A result is [status, data] with data = buf.raw[:ret_len].     *)

\* n little-endian bytes of v
RECURSIVE le_bytes(_, _)
le_bytes(v, n) == IF n = 0 THEN <<>> ELSE <<v % 256>> \o le_bytes(v \div 256, n - 1)

\* one 40-byte record as the OS lays it out
os_record(r) ==
    r.tag \o le_bytes(r.pa, 4) \o le_bytes(r.pf, 4) \o le_bytes(r.rsv, 4)
          \o le_bytes(r.pu, 8) \o le_bytes(r.npa, 4) \o le_bytes(r.npf, 4)
          \o le_bytes(r.npu, 8)

RECURSIVE os_records(_)
os_records(rs) == IF rs = <<>> THEN <<>> ELSE os_record(Head(rs)) \o os_records(Tail(rs))

\* a whole buffer: count, the 4 bytes after it, the records
os_buffer(count, pad, rs) == le_bytes(count, 4) \o le_bytes(pad, 4) \o os_records(rs)

\* a record with the given tag bytes and byte totals
Rec(t, pu, npu) ==
    [tag |-> t, pa |-> 100, pf |-> 40, rsv |-> 0, pu |-> pu, npa |-> 7, npf |-> 9,
     npu |-> npu]

TagA == <<65, 65, 65, 65>>
TagB == <<66, 66, 66, 66>>
\* a tag with a non-printable byte, rendered "A.AA"
TagC == <<65, 0, 65, 65>>

\* STATUS_INFO_LENGTH_MISMATCH as the signed int ctypes returns
StatusFailed == -1073741820

\* the results main() is run against
MainResults ==
    { [status |-> StatusFailed, data |-> <<>>],
      [status |-> 0, data |-> <<1, 0>>],
      [status |-> 0, data |-> os_buffer(0, 0, <<>>)],
      [status |-> 0, data |-> os_buffer(1, 0, <<Rec(TagA, 1000000, 0)>>)],
      [status |-> 0, data |-> os_buffer(1, 0, <<Rec(TagA, 2048576, 0)>>)],
      [status |-> 0, data |-> os_buffer(1, 0, <<Rec(TagA, 11485760, 0)>>)],
      [status |-> 0, data |-> os_buffer(2, 0, <<Rec(TagB, 102400, 0),
                                                Rec(TagA, 1000000, 0)>>)],
      [status |-> 0, data |-> os_buffer(2, 0, <<Rec(TagB, 51200, 51201),
                                                Rec(TagA, 102401, 0)>>)] }

\* the command lines main() is run with
Intervals == {-60, 0, 300}
SampleCounts == {-1} \cup (0..MaxSamples)

----------------------------------------------------------------------------
(* main(), one action per step *)

Init ==
    /\ pc = "init"
    /\ err = "none"
    /\ interval \in Intervals
    /\ samples \in SampleCounts
    /\ status = 0
    /\ data = <<>>
    /\ tags = <<>>
    /\ baseline = <<>>
    /\ i = 0
    /\ current = <<>>
    /\ growers = <<>>
    /\ shown = <<>>
    /\ history = <<>>
    /\ final = <<>>
    /\ suspects = <<>>
    /\ summary = <<>>
    /\ calls = 0
    /\ sleeps = 0

\* an uncaught exception ends main() where it is
Raise(name) == pc' = "raised" /\ err' = name

\* line 44-47: baseline = get_pool_tags(); history = []
Baseline ==
    /\ pc = "init"
    /\ \E r \in MainResults :
         LET g == get_pool_tags(r.status, r.data) IN
         /\ status' = r.status
         /\ data' = r.data
         /\ calls' = calls + 1
         /\ IF g.raised
            THEN /\ Raise("struct.error")
                 /\ UNCHANGED <<tags, baseline, history>>
            ELSE /\ tags' = g.tags
                 /\ baseline' = g.tags
                 /\ history' = <<>>
                 /\ pc' = "loop"
                 /\ err' = err
    /\ UNCHANGED <<interval, samples, i, current, growers, shown, final, suspects,
                   summary, sleeps>>

\* lines 48-49: the loop header takes the next i, then time.sleep(interval);
\* time.sleep raises ValueError on a negative length
Sleep ==
    /\ pc = "loop"
    /\ i < samples
    /\ i' = i + 1
    /\ sleeps' = sleeps + 1
    /\ IF interval < 0
       THEN Raise("ValueError")
       ELSE pc' = "slept" /\ err' = err
    /\ UNCHANGED <<interval, samples, status, data, tags, baseline, current, growers,
                   shown, history, final, suspects, summary, calls>>

\* lines 50-74: the rest of the iteration, after the sleep
Sample_rebasing ==
    /\ pc = "slept"
    /\ \E r \in MainResults :
         LET g == get_pool_tags(r.status, r.data) IN
         /\ status' = r.status
         /\ data' = r.data
         /\ calls' = calls + 1
         /\ IF g.raised
            THEN /\ Raise("struct.error")
                 /\ UNCHANGED <<tags, baseline, current, growers, shown, history>>
            ELSE /\ tags' = g.tags
                 /\ current' = g.tags
                 /\ growers' = compute_growers(baseline, g.tags)
                 /\ shown' = top_rows(growers')
                 /\ history' = Append(history, <<i * interval, growers'>>)
                 /\ baseline' = g.tags
                 /\ pc' = "loop"
                 /\ err' = err
    /\ UNCHANGED <<interval, samples, i, final, suspects, summary, sleeps>>
Sample_accumulating ==
    /\ pc = "slept"
    /\ \E r \in MainResults :
         LET g == get_pool_tags(r.status, r.data) IN
         /\ status' = r.status
         /\ data' = r.data
         /\ calls' = calls + 1
         /\ IF g.raised
            THEN /\ Raise("struct.error")
                 /\ UNCHANGED <<tags, current, growers, shown, history>>
            ELSE /\ tags' = g.tags
                 /\ current' = g.tags
                 /\ growers' = sort_growers(growers \o collect_growers(baseline, g.tags))
                 /\ shown' = top_rows(growers')
                 /\ history' = Append(history, <<i * interval, growers'>>)
                 /\ pc' = "loop"
                 /\ err' = err
    /\ UNCHANGED <<interval, samples, baseline, i, final, suspects, summary, sleeps>>
Sample ==
    /\ pc = "slept"
    /\ \E r \in MainResults :
         LET g == get_pool_tags(r.status, r.data) IN
         /\ status' = r.status
         /\ data' = r.data
         /\ calls' = calls + 1
         /\ IF g.raised
            THEN /\ Raise("struct.error")
                 /\ UNCHANGED <<tags, current, growers, shown, history>>
            ELSE /\ tags' = g.tags
                 /\ current' = g.tags
                 /\ growers' = compute_growers(baseline, g.tags)
                 /\ shown' = top_rows(growers')
                 /\ history' = Append(history, <<i * interval, growers'>>)
                 /\ pc' = "loop"
                 /\ err' = err
    /\ UNCHANGED <<interval, samples, baseline, i, final, suspects, summary, sleeps>>

\* lines 76-98: the final summary, after the loop
Final ==
    /\ pc = "loop"
    /\ i >= samples
    /\ \E r \in MainResults :
         LET g == get_pool_tags(r.status, r.data) IN
         /\ status' = r.status
         /\ data' = r.data
         /\ calls' = calls + 1
         /\ IF g.raised
            THEN /\ Raise("struct.error")
                 /\ UNCHANGED <<tags, final, suspects, summary>>
            ELSE /\ tags' = g.tags
                 /\ final' = g.tags
                 /\ IF final_candidates(baseline, g.tags) # <<>>
                       /\ rate_raises(samples, interval)
                    THEN /\ Raise("ZeroDivisionError")
                         /\ UNCHANGED <<suspects, summary>>
                    ELSE /\ suspects' = sort_suspects(
                                collect_suspects(baseline, g.tags, samples, interval))
                         /\ summary' = summary_rows(suspects')
                         /\ pc' = "done"
                         /\ err' = err
    /\ UNCHANGED <<interval, samples, baseline, i, current, growers, shown, history,
                   sleeps>>

Next == Baseline \/ Sleep \/ Sample \/ Final

Spec == Init /\ [][Next]_vars

----------------------------------------------------------------------------
(* get_pool_tags() alone: the OS result is drawn first, one call decodes it *)

\* the raw tags of generated records: the bytes on both sides of the two ends
\* of the printable range (". ~."), "A.AA" by a NUL byte and "A.AA" literally
TagDot == <<65, 46, 65, 65>>
TagEdge == <<31, 32, 126, 127>>
DecodeTags == {TagEdge, TagC, TagDot}

\* bytes for the places the decoder skips: record offsets 12-15 (0x0A0A0A0A)
\* and buffer offsets 4-7 (0x01020304)
RsvJunk == 168430090
PadJunk == 16909060

\* the generated records: paged bytes with the skipped field zero, or nonpaged
\* bytes with the skipped field filled
DecodeRecs ==
    {[Rec(t, v[1], v[2]) EXCEPT !.rsv = v[3]] :
        t \in DecodeTags, v \in {<<1000000, 0, 0>>, <<0, 2048576, RsvJunk>>}}

\* all sequences over S of length at most n
SeqsUpTo(S, n) == UNION {[1..k -> S] : k \in 0..n}

\* the lengths a buffer is cut to: around the header fields and around each
\* record boundary
CutLengths(n) == {l \in 0..n : l \in {0, 3, 4, 7, 8} \/ (l > 8 /\ l % 40 \in {7, 8, 9})}

\* the record sequences and header counts of generated buffers
DecodeRecSeqs == SeqsUpTo(DecodeRecs, MaxRecs)
DecodeCounts == 0..(MaxRecs + 1)
\* the 4 bytes after the count: zero, or filled when the count is that of the
\* records written
DecodePads(count, rs) == IF count = Len(rs) THEN {0, PadJunk} ELSE {0}

InitDecode ==
    /\ pc = "call"
    /\ err = "none"
    /\ interval = 0
    /\ samples = 0
    /\ status \in {0, StatusFailed}
    /\ \E rs \in DecodeRecSeqs, count \in DecodeCounts :
         \E pad \in DecodePads(count, rs) :
            LET full == os_buffer(count, pad, rs)
            IN  \E l \in CutLengths(Len(full)) : data = SubSeq(full, 1, l)
    /\ tags = <<>>
    /\ baseline = <<>>
    /\ i = 0
    /\ current = <<>>
    /\ growers = <<>>
    /\ shown = <<>>
    /\ history = <<>>
    /\ final = <<>>
    /\ suspects = <<>>
    /\ summary = <<>>
    /\ calls = 0
    /\ sleeps = 0

\* lines 15-33 on the drawn result
DecodeCall ==
    /\ pc = "call"
    /\ LET g == get_pool_tags(status, data) IN
       /\ calls' = calls + 1
       /\ IF g.raised
          THEN Raise("struct.error") /\ tags' = tags
          ELSE pc' = "returned" /\ err' = err /\ tags' = g.tags
    /\ UNCHANGED <<interval, samples, status, data, baseline, i, current, growers,
                   shown, history, final, suspects, summary, sleeps>>

NextDecode == DecodeCall

SpecDecode == InitDecode /\ [][NextDecode]_vars

----------------------------------------------------------------------------
(* The comparison with the baseline alone: a pair (baseline, snapshot) is  *)
(* drawn first, then lines 54-71 and lines 81-98 are applied to it         *)

GrowthTags == {TagA, TagB, TagDot}
GrowthValues == {<<0, 0>>, <<102400, 0>>, <<102400, 1>>, <<204800, 2>>}

GrowthItems ==
    {[tag |-> t, paged |-> v[1], nonpaged |-> v[2], p_out |-> 60, np_out |-> -2]
        : t \in GrowthTags, v \in GrowthValues}

\* the dicts of at most MaxRecs items: item sequences with pairwise distinct keys
Snapshots ==
    {q \in SeqsUpTo(GrowthItems, MaxRecs) : Cardinality(Keys(q)) = Len(q)}

\* a buffer of ManyRecs records with the tags "AAAA", "BBBB", ... and totals
\* that grow along the buffer, and the dict it decodes to
ManyTag(k) == [j \in 1..4 |-> 64 + k]
ManyBuffer ==
    os_buffer(ManyRecs, 0, [k \in 1..ManyRecs |-> Rec(ManyTag(k), 110000 + 10000 * k, k)])
ManySnapshot == get_pool_tags(0, ManyBuffer).tags

GrowthSnapshots == Snapshots \cup {ManySnapshot}

InitGrowth ==
    /\ pc = "pair"
    /\ err = "none"
    /\ interval = 300
    /\ samples = MaxSamples
    /\ status = 0
    /\ data = <<>>
    /\ tags = <<>>
    /\ baseline \in GrowthSnapshots
    /\ i = 0
    /\ current \in GrowthSnapshots
    /\ growers = <<>>
    /\ shown = <<>>
    /\ history = <<>>
    /\ final = <<>>
    /\ suspects = <<>>
    /\ summary = <<>>
    /\ calls = 0
    /\ sleeps = 0

\* lines 54-63 and 71 on the drawn pair
Compare ==
    /\ pc = "pair"
    /\ growers' = compute_growers(baseline, current)
    /\ shown' = top_rows(growers')
    /\ pc' = "compared"
    /\ UNCHANGED <<err, interval, samples, status, data, tags, baseline, i, current,
                   history, final, suspects, summary, calls, sleeps>>

\* lines 81-98 on the same pair: final is the snapshot just compared
Summarise ==
    /\ pc = "compared"
    /\ final' = current
    /\ suspects' = sort_suspects(collect_suspects(baseline, current, samples, interval))
    /\ summary' = summary_rows(suspects')
    /\ pc' = "done"
    /\ UNCHANGED <<err, interval, samples, status, data, tags, baseline, i, current,
                   growers, shown, history, calls, sleeps>>

NextGrowth == Compare \/ Summarise

SpecGrowth == InitGrowth /\ [][NextGrowth]_vars

----------------------------------------------------------------------------
(* Properties of the decoder, checked under SpecDecode *)

\* the number of whole records the returned bytes hold after the header
RecordsThatFit == (Len(data) - HeaderSize) \div RecordSize

\* the number of records a successful call reads
RecordsRead == Min(unpack_I(data, 0), RecordsThatFit)

\* Python offset of the j-th record
RecordOffset(j) == HeaderSize + RecordSize * (j - 1)

\* the rendered tags of the records read
TagsRead == {tag_of(data, RecordOffset(j)) : j \in 1..RecordsRead}

\* a call on a buffer that holds at least the 8 header bytes has returned
DecodedWithHeader == pc = "returned" /\ status = 0 /\ Len(data) >= HeaderSize

\* a call on a buffer of length 8 + 40*k has returned
DecodedAligned == DecodedWithHeader /\ (Len(data) - HeaderSize) % RecordSize = 0

\* C1 as stated: a buffer of length 8 + 40*k with header count n decodes to
\* exactly min(n, k) entries.
C1_ExactlyMinEntries == DecodedAligned => Len(tags) = RecordsRead

\* C1, amended: a buffer of at least 8 bytes (in particular of length
\* 8 + 40*k) with header count n makes the decoder read exactly the first
\* min(n, floor((len - 8) / 40)) records and return, without failing, one entry
\* per distinct tag key among them: min(n, k) entries when those keys are
\* pairwise distinct, fewer otherwise.
C1_OneEntryPerTagRead ==
    (status = 0 /\ Len(data) >= HeaderSize /\ pc # "call") =>
        /\ pc = "returned"
        /\ Keys(tags) = TagsRead
        /\ Len(tags) = Cardinality(TagsRead)
        /\ Len(tags) <= RecordsRead

\* C1 witness: an aligned buffer whose header announces more records than fit
\* (decoding stopped early) and whose two records share a tag key.
C1_Witness ==
    /\ DecodedAligned
    /\ unpack_I(data, 0) > RecordsThatFit
    /\ RecordsRead = 2
    /\ Len(tags) = 1

\* C2 as stated: a returned buffer shorter than 48 bytes, of any length from 0
\* to 47, decodes without raising, to the empty (or a partial) snapshot.
C2_ShortBufferNeverRaises ==
    (status = 0 /\ Len(data) < HeaderSize + RecordSize /\ pc # "call") =>
        pc = "returned" /\ Len(tags) <= 1

\* C6: a tag key that occurs in several records read has exactly one entry,
\* holding the values of the last such record in buffer order; every other
\* tag's entry holds the values of its own last record.
C6_LastWriteWins ==
    DecodedWithHeader =>
        \A j \in 1..RecordsRead :
            LET t    == tag_of(data, RecordOffset(j))
                same == {k \in 1..RecordsRead : tag_of(data, RecordOffset(k)) = t}
                last == CHOOSE k \in same : \A m \in same : m <= k
            IN  /\ Cardinality({x \in 1..Len(tags) : tags[x].tag = t}) = 1
                /\ Lookup(tags, t).paged = unpack_Q(data, RecordOffset(last) + 16)
                /\ Lookup(tags, t).nonpaged = unpack_Q(data, RecordOffset(last) + 32)
                /\ Lookup(tags, t).p_out =
                       unpack_I(data, RecordOffset(last) + 4)
                         - unpack_I(data, RecordOffset(last) + 8)
                /\ Lookup(tags, t).np_out =
                       unpack_I(data, RecordOffset(last) + 24)
                         - unpack_I(data, RecordOffset(last) + 28)

\* C6 witness: the first and third record share a tag key (from different raw
\* bytes) and differ in their byte totals, the second has another tag.
C6_Witness ==
    /\ DecodedWithHeader
    /\ RecordsRead = 3
    /\ tag_of(data, RecordOffset(1)) = tag_of(data, RecordOffset(3))
    /\ SubSeq(data, RecordOffset(1) + 1, RecordOffset(1) + 4)
          # SubSeq(data, RecordOffset(3) + 1, RecordOffset(3) + 4)
    /\ tag_of(data, RecordOffset(1)) # tag_of(data, RecordOffset(2))
    /\ unpack_Q(data, RecordOffset(1) + 16) # unpack_Q(data, RecordOffset(3) + 16)
    /\ Len(tags) = 2
    /\ tags[1].paged = unpack_Q(data, RecordOffset(3) + 16)
    /\ tags[2].paged = unpack_Q(data, RecordOffset(2) + 16)

----------------------------------------------------------------------------
(* Properties of the comparison with the baseline, checked under SpecGrowth *)

\* the threshold in bytes, 100 * 1024
ThresholdBytes == 100 * 1024

\* paged + nonpaged bytes of tag t in dict m, 0 when m has no such key
TotalIn(m, t) ==
    IF t \in Keys(m) THEN Lookup(m, t).paged + Lookup(m, t).nonpaged ELSE 0

\* the tags of the rows of a report
RowTags(rows) == {rows[j][1] : j \in 1..Len(rows)}

\* position of tag t in the iteration order of dict m
Position(m, t) == CHOOSE j \in 1..Len(m) : m[j].tag = t

\* Python's str order on tags
TagLess(a, b) ==
    \E k \in 1..4 : a[k] < b[k] /\ \A j \in 1..(k - 1) : a[j] = b[j]

Compared == pc \in {"compared", "done"}

\* C4: every reported record has delta_total_bytes > 100 * 1024, where
\* delta_total_bytes is the signed difference of the tag's totals; a tag whose
\* difference is equal to the threshold, zero or negative is not reported.
C4_OnlyAboveThreshold ==
    /\ Compared =>
         /\ \A j \in 1..Len(growers) :
              /\ growers[j][4] > ThresholdBytes
              /\ growers[j][4] = TotalIn(current, growers[j][1])
                                   - TotalIn(baseline, growers[j][1])
         /\ \A t \in Keys(current) :
              TotalIn(current, t) - TotalIn(baseline, t) <= ThresholdBytes
                  => t \notin RowTags(growers)
    /\ pc = "done" =>
         /\ \A j \in 1..Len(suspects) :
              /\ suspects[j][2] > ThresholdBytes
              /\ suspects[j][2] = TotalIn(final, suspects[j][1])
                                    - TotalIn(baseline, suspects[j][1])
         /\ \A t \in Keys(final) :
              TotalIn(final, t) - TotalIn(baseline, t) <= ThresholdBytes
                  => t \notin RowTags(suspects)

\* C4 witness: one tag grew by exactly the threshold, one shrank, and one is
\* reported in both tables.
C4_Witness ==
    /\ pc = "done"
    /\ \E t \in Keys(current) :
         TotalIn(current, t) - TotalIn(baseline, t) = ThresholdBytes
    /\ \E t \in Keys(current) : TotalIn(current, t) - TotalIn(baseline, t) < 0
    /\ Len(growers) = 1
    /\ Len(suspects) = 1

\* rows sorted descending by component k, equal keys in ascending tag order
SortedWithTagTieBreak(rows, k) ==
    \A a, b \in 1..Len(rows) :
        a < b => \/ rows[a][k] > rows[b][k]
                 \/ rows[a][k] = rows[b][k] /\ TagLess(rows[a][1], rows[b][1])

\* rows sorted descending by component k, equal keys in the iteration order
\* of dict m
SortedWithOrderOf(rows, k, m) ==
    \A a, b \in 1..Len(rows) :
        a < b => \/ rows[a][k] > rows[b][k]
                 \/ /\ rows[a][k] = rows[b][k]
                    /\ Position(m, rows[a][1]) < Position(m, rows[b][1])

\* C5 as stated: the reported sequence is sorted descending by
\* delta_total_bytes and equal deltas appear in ascending tag-name order,
\* whatever the order of the tags in the decoded buffer.
C5_TiesByTagName ==
    /\ Compared => SortedWithTagTieBreak(growers, 4)
    /\ pc = "done" => SortedWithTagTieBreak(suspects, 2)

\* C5, amended: the reported sequence is sorted descending by
\* delta_total_bytes, and records with equal delta_total_bytes appear in the
\* order in which their tags occur in the current (or final) snapshot, which
\* is the order of the tags' first records in the decoded buffer.
C5_TiesInSnapshotOrder ==
    /\ Compared => SortedWithOrderOf(growers, 4, current)
    /\ pc = "done" => SortedWithOrderOf(suspects, 2, final)

\* C5 witness: three growers, the larger delta first although its tag comes
\* last in the snapshot, then two equal deltas with the greater tag name first.
C5_Witness ==
    /\ pc = "done"
    /\ Len(growers) = 3
    /\ growers[1][4] > growers[2][4]
    /\ Position(current, growers[1][1]) = 3
    /\ growers[2][4] = growers[3][4]
    /\ TagLess(growers[3][1], growers[2][1])
    /\ Len(suspects) = 3

\* C7: a tag of the current (or final) snapshot that the baseline does not
\* have is compared with an all-zero record: it is reported exactly when its
\* own total exceeds the threshold, and its deltas are its current paged,
\* nonpaged and total bytes.
C7_AbsentTagGrowsFromZero ==
    /\ Compared =>
         /\ \A j \in 1..Len(growers) :
              growers[j][1] \notin Keys(baseline) =>
                  /\ growers[j][2] = Lookup(current, growers[j][1]).paged
                  /\ growers[j][3] = Lookup(current, growers[j][1]).nonpaged
                  /\ growers[j][4] = TotalIn(current, growers[j][1])
                  /\ growers[j][5] = growers[j][4]
         /\ \A t \in Keys(current) \ Keys(baseline) :
              TotalIn(current, t) > ThresholdBytes => t \in RowTags(growers)
    /\ pc = "done" =>
         /\ \A j \in 1..Len(suspects) :
              suspects[j][1] \notin Keys(baseline) =>
                  /\ suspects[j][2] = TotalIn(final, suspects[j][1])
                  /\ suspects[j][4] = suspects[j][2]
         /\ \A t \in Keys(final) \ Keys(baseline) :
              TotalIn(final, t) > ThresholdBytes => t \in RowTags(suspects)

\* C7 witness: a non-empty baseline, and a reported tag it does not have,
\* with paged and nonpaged bytes both non-zero.
C7_Witness ==
    /\ pc = "done"
    /\ baseline # <<>>
    /\ \E j \in 1..Len(growers) :
         /\ growers[j][1] \notin Keys(baseline)
         /\ growers[j][2] > 0
         /\ growers[j][3] > 0
         /\ growers[j][1] \in RowTags(suspects)

\* the two snapshots hold the same data (the same keys with the same values)
SameData(m1, m2) ==
    /\ Keys(m1) = Keys(m2)
    /\ \A t \in Keys(m1) : Lookup(m1, t) = Lookup(m2, t)

\* C8: the growth of a snapshot against a baseline with identical data is the
\* empty sequence, in the per-interval comparison and in the final summary.
C8_NoSelfGrowth ==
    /\ (Compared /\ SameData(baseline, current)) => growers = <<>>
    /\ (pc = "done" /\ SameData(baseline, final)) => suspects = <<>>

\* C8 witness: a snapshot of three tags, one of them above the threshold on
\* its own, compared with itself.
C8_Witness ==
    /\ pc = "done"
    /\ SameData(baseline, current)
    /\ Len(current) = 3
    /\ \E t \in Keys(current) : TotalIn(current, t) > ThresholdBytes
    /\ growers = <<>>
    /\ suspects = <<>>

----------------------------------------------------------------------------
(* Properties of a run of main(), checked under Spec *)

\* this step made a get_pool_tags() call whose OS call reported a failure
FailedCall == calls' = calls + 1 /\ status' # 0

\* C3: a failed acquisition yields an empty snapshot and the step it occurs in
\* ends normally.  At the baseline the empty snapshot becomes the baseline and
\* the loop is entered; in a sampling iteration it becomes current, nothing is
\* reported, the iteration is recorded in history and the loop goes on to its
\* header; at the
\* final decode the summary is empty and main() completes.
C3_FailedAcquisitionContinues ==
    [][FailedCall =>
          /\ tags' = <<>>
          /\ err' = "none"
          /\ pc = "init" => (pc' = "loop" /\ baseline' = <<>> /\ i' = 0)
          /\ pc = "slept" =>
                /\ pc' = "loop"
                /\ i' = i
                /\ current' = <<>>
                /\ growers' = <<>>
                /\ Len(history') = Len(history) + 1
          /\ pc = "loop" =>
                /\ i >= samples
                /\ pc' = "done"
                /\ final' = <<>>
                /\ suspects' = <<>>
                /\ summary' = <<>>]_vars

\* C3 witness: the first of two sampling iterations has just failed against a
\* non-empty baseline, and the run is still in the loop.
C3_Witness ==
    /\ pc = "loop"
    /\ status # 0
    /\ samples = 2
    /\ i = 1
    /\ baseline # <<>>
    /\ current = <<>>
    /\ Len(history) = 1

\* C9: baseline is assigned by the first step of the run, from the first
\* get_pool_tags() call, and no later step changes it.
C9_BaselineAssignedOnce ==
    [][/\ pc = "init" => (calls = 0 /\ (pc' = "loop" => baseline' = tags'))
       /\ pc # "init" => baseline' = baseline]_vars

\* C9 witness: a completed run of two iterations in which the snapshots of the
\* last iteration and of the final summary both differ from the baseline.
C9_Witness ==
    /\ pc = "done"
    /\ i = 2
    /\ baseline # <<>>
    /\ current # baseline
    /\ final # baseline
    /\ final # current

\* C10: every row of the final table has
\* rate = (delta_total_bytes / 1024) / (samples * interval / 60), that is
\* delta_total_bytes * 60 / (1024 * samples * interval), and
\* est_day = rate * 60 * 24 / 1024 = rate * 1440 / 1024; 10485760 bytes over
\* 600 seconds give 1024 KB/min and 1440 MB/day.
C10_RateAndDailyEstimate ==
    pc = "done" =>
        \A j \in 1..Len(summary) :
            /\ summary[j][3] = Norm(summary[j][2] * 60, 1024 * (samples * interval))
            /\ summary[j][3] = suspects[j][3]
            /\ summary[j][5] = RMul(summary[j][3], Norm(1440, 1024))
            /\ (summary[j][2] = 10485760 /\ samples * interval = 600) =>
                   (summary[j][3] = <<1024, 1>> /\ summary[j][5] = <<1440, 1>>)

\* C10 witness: the final table of a run of 600 seconds holds a tag that grew
\* by 10485760 bytes.
C10_Witness ==
    /\ pc = "done"
    /\ samples * interval = 600
    /\ \E j \in 1..Len(summary) :
         /\ summary[j][2] = 10485760
         /\ summary[j][3] = <<1024, 1>>
         /\ summary[j][5] = <<1440, 1>>

\* C11 as stated: whatever the integer interval and sample count and whatever
\* the decodes return, no run ends in an error state: main() is never left by
\* an uncaught exception.  (Stated for the runs in which every successful OS
\* call returned at least the 4 bytes of the count, so that the struct.error
\* of C2 is not what ends them.)
C11_NoRunEndsInError == ~(pc = "raised" /\ err # "struct.error")

\* the growers sequence is the one (baseline, current) alone determine: one
\* row per tag of current whose delta exceeds the threshold, holding that tag's
\* deltas and total, sorted by delta with ties in the order of current
GrowersDeterminedBy(rows, bl, cur) ==
    /\ RowTags(rows) = {t \in Keys(cur) : TotalIn(cur, t) - TotalIn(bl, t) > ThresholdBytes}
    /\ Len(rows) = Cardinality(RowTags(rows))
    /\ SortedWithOrderOf(rows, 4, cur)
    /\ \A j \in 1..Len(rows) :
         LET c == Lookup(cur, rows[j][1])
             pb == IF rows[j][1] \in Keys(bl) THEN Lookup(bl, rows[j][1]).paged ELSE 0
             nb == IF rows[j][1] \in Keys(bl) THEN Lookup(bl, rows[j][1]).nonpaged ELSE 0
         IN  rows[j] = <<c.tag, c.paged - pb, c.nonpaged - nb,
                         (c.paged + c.nonpaged) - (pb + nb), c.paged + c.nonpaged>>

\* the dict is the one (status, data) alone determine: empty after a failed OS
\* call, else one item per tag read, in the order of the tags' first records,
\* with the values of the tag's last record
TagsDeterminedBy(m) ==
    IF status # 0 THEN m = <<>>
    ELSE /\ Keys(m) = TagsRead
         /\ Len(m) = Cardinality(TagsRead)
         /\ \A x \in 1..Len(m) :
              LET same == {k \in 1..RecordsRead : tag_of(data, RecordOffset(k)) = m[x].tag}
                  last == CHOOSE k \in same : \A k2 \in same : k2 <= k
                  frst == CHOOSE k \in same : \A k2 \in same : k <= k2
              IN  /\ m[x] = read_record(data, RecordOffset(last))
                  /\ \A y \in 1..Len(m) :
                       x < y => \E k \in frst + 1..RecordsRead :
                                   tag_of(data, RecordOffset(k)) = m[y].tag

\* C12: what a sampling iteration reports depends on (baseline, current) only,
\* not on the iterations before it nor on history, and what a call of the
\* decoder returns depends on (status, data) of that call only, not on the
\* calls before it.
C12_OutputsDependOnInputsOnly ==
    /\ GrowersDeterminedBy(growers, baseline, current)
    /\ (calls >= 1 /\ err # "struct.error") => TagsDeterminedBy(tags)

\* C12 witness: the second iteration followed one that reported other growers
\* (kept in history), and its decode followed two others.
C12_Witness ==
    /\ i = 2
    /\ calls = 3
    /\ Len(history) = 2
    /\ history[1][2] # <<>>
    /\ growers # <<>>
    /\ history[1][2] # growers
    /\ history[2][2] = growers
    /\ Len(current) = 2

\* where a run of sample count n >= 0 stands: no decode and no sleep before
\* the baseline; after the baseline and i iterations, i + 1 decodes and i
\* sleeps; between the sleep and the decode of iteration i, i decodes and i
\* sleeps; at the end, n + 2 decodes and n sleeps
OnTheRunSequence ==
    /\ pc = "init" => (calls = 0 /\ sleeps = 0 /\ i = 0)
    /\ pc = "loop" => (calls = i + 1 /\ sleeps = i /\ i <= samples)
    /\ pc = "slept" => (calls = i /\ sleeps = i /\ 1 <= i /\ i <= samples)
    /\ pc = "done" => (calls = samples + 2 /\ sleeps = samples /\ i = samples)

\* C13 as stated: every run goes INIT -> BASELINE_CAPTURED -> SAMPLING
\* (sample_count times, each a sleep then one decode) -> FINAL_SUMMARY -> DONE,
\* so that it is always at one of these stations, with the decodes and sleeps
\* of that station behind it, and ends in DONE after sample_count + 2 decodes
\* and sample_count sleeps.
C13_EveryRunFollowsTheSequence ==
    samples >= 0 => (pc \in {"init", "loop", "slept", "done"} /\ OnTheRunSequence)

\* C14 as stated: every tag of the final summary is a monotonic grower: its
\* total never decreased from one snapshot of the run to the next, and its
\* final total exceeds its baseline total by more than the threshold.  (Of
\* the snapshots of a run the state keeps the baseline, the last sample and
\* the final one; a monotonic grower is ordered along these three.)
C14_SuspectsGrewMonotonically ==
    (pc = "done" /\ i >= 1) =>
        \A j \in 1..Len(suspects) :
            /\ TotalIn(baseline, suspects[j][1]) <= TotalIn(current, suspects[j][1])
            /\ TotalIn(current, suspects[j][1]) <= TotalIn(final, suspects[j][1])
            /\ TotalIn(final, suspects[j][1]) - TotalIn(baseline, suspects[j][1])
                 > ThresholdBytes

----------------------------------------------------------------------------
(* The two tables compared, checked under SpecGrowth *)

\* C15: for the same baseline and the same snapshot the final summary selects
\* the same tags as the per-interval comparison, with the same
\* delta_total_bytes and current_total_bytes, in the same order; the final
\* table has a row for every one of them (no cap), and it is empty, so that
\* the no-significant-growth message is printed instead, exactly when there
\* is none.
C15_FinalSelectsAsPerInterval ==
    (pc = "done" /\ final = current) =>
        /\ Len(suspects) = Len(growers)
        /\ \A j \in 1..Len(suspects) :
             /\ suspects[j][1] = growers[j][1]
             /\ suspects[j][2] = growers[j][4]
             /\ suspects[j][4] = growers[j][5]
        /\ Len(summary) = Len(suspects)
        /\ \A j \in 1..Len(summary) :
             /\ summary[j][1] = suspects[j][1]
             /\ summary[j][2] = suspects[j][2]
             /\ summary[j][4] = suspects[j][4]
        /\ (summary = <<>>) <=> (growers = <<>>)

\* C15 witness: more than 15 tags are selected, the per-interval table is cut
\* to 15 rows and the final table has them all.
C15_Witness ==
    /\ pc = "done"
    /\ final = current
    /\ Len(growers) > 15
    /\ Len(shown) = 15
    /\ Len(summary) = Len(growers)
    /\ baseline # <<>>

\* C16: the table of a sampling iteration has at most 15 rows, they are the
\* first min(15, number of growers) entries of the sorted growers, and no
\* printed grower has a smaller delta_total_bytes than an omitted one.
C16_TopFifteenPrinted ==
    Compared =>
        /\ Len(shown) <= 15
        /\ Len(shown) = Min(15, Len(growers))
        /\ \A j \in 1..Len(shown) : shown[j] = growers[j]
        /\ \A p \in 1..Len(shown) : \A o \in (Len(shown) + 1)..Len(growers) :
             shown[p][4] >= growers[o][4]

\* C16 witness: more growers than rows, the omitted one being the first tag
\* of the snapshot.
C16_Witness ==
    /\ pc = "compared"
    /\ Len(growers) > 15
    /\ Len(shown) = 15
    /\ growers[Len(growers)][1] = current[1].tag
    /\ current[1].tag \notin RowTags(shown)

----------------------------------------------------------------------------
(* The record layout, checked under SpecDecode *)

\* the key the claim gives 4 tag bytes
KeyOfBytes(b) == [k \in 1..4 |-> IF b[k] \in 32..126 THEN b[k] ELSE 46]

\* the raw tag bytes of the j-th record
RawTag(j) == SubSeq(data, RecordOffset(j) + 1, RecordOffset(j) + 4)

\* d with buffer offsets 4-7 and every record's offsets 12-15 set to zero
Blanked(d) ==
    [x \in 1..Len(d) |->
        IF x \in 5..8 \/ (x > HeaderSize /\ (x - 9) % RecordSize \in 12..15)
        THEN 0 ELSE d[x]]

\* C17: every record read has its key in the snapshot, the key being its 4 tag
\* bytes with each byte in [32,126] kept and every other byte replaced by '.';
\* the entry of a key holds, as paged and nonpaged, the unsigned 64-bit
\* little-endian values at offsets 16-23 and 32-39 of the key's last record;
\* and the snapshot is the one of the same buffer with record offsets 12-15
\* and buffer offsets 4-7 zeroed.
C17_RecordLayout ==
    DecodedWithHeader =>
        /\ \A j \in 1..RecordsRead :
             LET key  == KeyOfBytes(RawTag(j))
                 last == \A k \in (j + 1)..RecordsRead : KeyOfBytes(RawTag(k)) # key
             IN  /\ key \in Keys(tags)
                 /\ last =>
                      /\ le_bytes(Lookup(tags, key).paged, 8)
                           = SubSeq(data, RecordOffset(j) + 17, RecordOffset(j) + 24)
                      /\ le_bytes(Lookup(tags, key).nonpaged, 8)
                           = SubSeq(data, RecordOffset(j) + 33, RecordOffset(j) + 40)
        /\ \A x \in 1..Len(tags) : \E j \in 1..RecordsRead : tags[x].tag = KeyOfBytes(RawTag(j))
        /\ tags = get_pool_tags(0, Blanked(data)).tags

\* C17 witness: two records read, one with the tag bytes 31, 32, 126, 127 and
\* the key ". ~.", one with bytes at offsets 12-15, in a buffer with bytes at
\* offsets 4-7.
C17_Witness ==
    /\ DecodedWithHeader
    /\ RecordsRead = 2
    /\ RawTag(1) = <<31, 32, 126, 127>>
    /\ tags[1].tag = <<46, 32, 126, 46>>
    /\ tags[1].paged = 1000000
    /\ data[RecordOffset(2) + 13] # 0
    /\ tags[2].nonpaged = 2048576
    /\ data[5] # 0
    /\ Blanked(data) # data

====
